---- MODULE Spec2Model ----
(***************************************************************************)
(* Model of TenderGuard/services/chatbot_service.py: class ChatbotService. *)
(*                                                                         *)
(* Text.  A Python str is a sequence of atoms.  An atom is either the      *)
(* blank " " or a blank-free chunk of characters ("what", "ACTMS").        *)
(* str.lower acts chunk by chunk (LowerAtom), str.strip removes leading    *)
(* and trailing blanks, str.split cuts at runs of blanks; a token is the   *)
(* sequence of adjacent chunks between two blanks.                         *)
(*                                                                         *)
(* Numbers.  A float is an exact fraction <<n, d>> in lowest terms with    *)
(* d > 0, so 0.3 is <<3, 10>> and 2/3 is <<2, 3>>.                         *)
(*                                                                         *)
(* Values.  None is PyNone, a str s is PyStr(s), a dict is a record.       *)
(* A call's outcome is Return(v) or Raise(e).                              *)
(***************************************************************************)
EXTENDS Integers, Sequences, FiniteSets, TLC

VARIABLES
    openai_api_key,   \* self.openai_api_key
    client,           \* self.client
    faq_database,     \* self.faq_database: entries in dict iteration order
    call,             \* the most recent call of the service and its arguments
    result,           \* the outcome of that call
    pc,               \* SpecConc: where the reading and the writing thread are
    frame             \* SpecConc: the locals of the running _get_faq_response

vars == <<openai_api_key, client, faq_database, call, result, pc, frame>>

----------------------------------------------------------------------------
(* Python values *)

PyNone == [py_none |-> TRUE]

PyStr(t) == [str |-> t]

Return(v) == [raised |-> FALSE, value |-> v]

Raise(e) == [raised |-> TRUE, value |-> [exception |-> e]]

\* bool(v): None and the empty str are false, a dict with keys is true
Truthy(v) ==
    /\ v # PyNone
    /\ DOMAIN v # {}
    /\ ("str" \in DOMAIN v => v.str # <<>>)

----------------------------------------------------------------------------
(* Exact fractions for float values *)

RECURSIVE Gcd(_, _)
Gcd(a, b) == IF b = 0 THEN a ELSE Gcd(b, a % b)

Abs(n) == IF n < 0 THEN -n ELSE n

Rat(n, d) ==
    LET g == Gcd(Abs(n), d) IN <<n \div g, d \div g>>

RatMul(a, b) == Rat(a[1] * b[1], a[2] * b[2])

RatGt(a, b) == a[1] * b[2] > b[1] * a[2]

RatGe(a, b) == a[1] * b[2] >= b[1] * a[2]

Max(a, b) == IF a >= b THEN a ELSE b

----------------------------------------------------------------------------
(* str.lower, str.strip, str.split *)

IsSpace(a) == a = " "

LowerAtom(a) ==
    CASE a = "New" -> "new"
      [] a = "Question" -> "question"
      [] a = "What" -> "what"
      [] a = "ACTMS" -> "actms"
      [] OTHER -> a

lower(t) == [i \in 1..Len(t) |-> LowerAtom(t[i])]

RECURSIVE lstrip(_)
lstrip(t) ==
    IF t # <<>> /\ IsSpace(Head(t)) THEN lstrip(Tail(t)) ELSE t

RECURSIVE rstrip(_)
rstrip(t) ==
    IF t # <<>> /\ IsSpace(t[Len(t)]) THEN rstrip(SubSeq(t, 1, Len(t) - 1)) ELSE t

strip(t) == rstrip(lstrip(t))

\* cur is the token being read, out the tokens already cut
RECURSIVE SplitFrom(_, _, _)
SplitFrom(t, cur, out) ==
    IF t = <<>>
    THEN IF cur = <<>> THEN out ELSE Append(out, cur)
    ELSE IF IsSpace(Head(t))
         THEN SplitFrom(Tail(t), <<>>, IF cur = <<>> THEN out ELSE Append(out, cur))
         ELSE SplitFrom(Tail(t), Append(cur, Head(t)), out)

split(t) == SplitFrom(t, <<>>, <<>>)

\* set(list)
set(s) == {s[i] : i \in DOMAIN s}

----------------------------------------------------------------------------
(* The fixed texts and results of the service *)

Words(ws) ==
    [i \in 1..(2 * Len(ws) - 1) |-> IF i % 2 = 1 THEN ws[(i + 1) \div 2] ELSE " "]

SeedEntry(ws, ans) ==
    [faq_key |-> Words(ws), faq_data |-> [answer |-> <<ans>>, confidence |-> Rat(1, 1)]]

SeedDatabase ==
    << SeedEntry(<<"what", "is", "actms">>, "ANSWER actms"),
       SeedEntry(<<"how", "to", "submit", "bid">>, "ANSWER submit bid"),
       SeedEntry(<<"what", "is", "suspicious", "bid">>, "ANSWER suspicious bid"),
       SeedEntry(<<"how", "does", "ai", "detection", "work">>, "ANSWER ai detection"),
       SeedEntry(<<"what", "file", "formats", "supported">>, "ANSWER file formats"),
       SeedEntry(<<"how", "to", "view", "tender", "status">>, "ANSWER tender status"),
       SeedEntry(<<"what", "is", "audit", "log">>, "ANSWER audit log"),
       SeedEntry(<<"how", "to", "check", "system", "status">>, "ANSWER system status") >>

DefaultResult ==
    [message |-> <<"I apologize, but I don't have a specific answer to your question.">>,
     source |-> "default",
     confidence |-> Rat(3, 10)]

TopErrorResult ==
    [message |-> <<"I'm experiencing technical difficulties.">>,
     source |-> "error",
     confidence |-> Rat(0, 1)]

OpenaiErrorResult ==
    [message |-> <<"I apologize, but I'm currently unable to provide a response.">>,
     source |-> "error",
     confidence |-> Rat(0, 1)]

NoMatchResult ==
    [message |-> <<"I couldn't find an answer to your question in our knowledge base.">>,
     source |-> "no_match",
     confidence |-> Rat(0, 1)]

FaqErrorResult ==
    [message |-> <<"I encountered an error while searching for an answer.">>,
     source |-> "error",
     confidence |-> Rat(0, 1)]

NoContentText == <<"I apologize, but I couldn't generate a response. Please try again.">>

Threshold == Rat(3, 10)

----------------------------------------------------------------------------
(* _get_faq_response *)

StopIteration == [stop |-> TRUE]

\* next() of the iterator of self.faq_database.items(): di_used is the size the
\* dict had when the iterator was made, i the number of entries already yielded
items_next(db, di_used, i) ==
    IF Len(db) # di_used
    THEN Raise("RuntimeError: dictionary changed size during iteration")
    ELSE IF i < Len(db) THEN Return(db[i + 1]) ELSE Return(StopIteration)

\* the score of one key against the message
score_of(faq_key, message) ==
    LET faq_keywords == split(faq_key)
        message_words == split(message)
        overlap == Cardinality(set(faq_keywords) \cap set(message_words))
    IN Rat(overlap, Max(Len(faq_keywords), 1))

\* loop_body with ">=" for ">": of entries with equal scores the last one wins
loop_body_last_wins(acc, item, message) ==
    LET score == score_of(item.faq_key, message) IN
    IF RatGe(score, acc.best_score) /\ RatGt(score, Threshold)
    THEN [best_score |-> score, best_match |-> item.faq_data]
    ELSE acc

\* one pass of the loop body over the locals best_match, best_score
loop_body(acc, item, message) ==
    LET score == score_of(item.faq_key, message) IN
    IF RatGt(score, acc.best_score) /\ RatGt(score, Threshold)
    THEN [best_score |-> score, best_match |-> item.faq_data]
    ELSE acc

InitialBest == [best_score |-> Rat(0, 1), best_match |-> PyNone]

\* faq_result returning the entry's own confidence, the score left out
faq_result_raw(acc) ==
    IF Truthy(acc.best_match)
    THEN [message |-> acc.best_match.answer,
          source |-> "faq",
          confidence |-> acc.best_match.confidence]
    ELSE NoMatchResult

\* faq_result adding the score to the entry's confidence
faq_result_sum(acc) ==
    IF Truthy(acc.best_match)
    THEN [message |-> acc.best_match.answer,
          source |-> "faq",
          confidence |-> Rat(acc.best_match.confidence[1] * acc.best_score[2]
                                + acc.best_score[1] * acc.best_match.confidence[2],
                             acc.best_match.confidence[2] * acc.best_score[2])]
    ELSE NoMatchResult

\* the statements after the loop
faq_result(acc) ==
    IF Truthy(acc.best_match)
    THEN [message |-> acc.best_match.answer,
          source |-> "faq",
          confidence |-> RatMul(acc.best_match.confidence, acc.best_score)]
    ELSE NoMatchResult

RECURSIVE faq_loop(_, _, _, _, _)
faq_loop(db, di_used, i, message, acc) ==
    LET nx == items_next(db, di_used, i) IN
    IF nx.raised THEN nx
    ELSE IF nx.value = StopIteration THEN Return(acc)
    ELSE faq_loop(db, di_used, i + 1, message, loop_body(acc, nx.value, message))

\* the end of the try block, and the except clause
faq_finish(scan) ==
    IF scan.raised THEN Return(FaqErrorResult) ELSE Return(faq_result(scan.value))

get_faq_response(db, message) ==
    faq_finish(faq_loop(db, Len(db), 0, message, InitialBest))

----------------------------------------------------------------------------
(* _get_openai_response *)

NotCalled == [kind |-> "not_called"]

\* whether json.dumps(context, indent=2) succeeds
Serializable(context) == context.serializable

\* the try block: reply is what client.chat.completions.create does
openai_try(client_, message, context, reply) ==
    IF context # PyNone /\ ~Serializable(context)
    THEN Raise("TypeError: Object is not JSON serializable")
    ELSE IF client_ = PyNone
    THEN Raise("ValueError: OpenAI client not initialized")
    ELSE IF reply.kind = "raise"
    THEN Raise("APIError")
    ELSE IF reply.kind = "no_choices"
    THEN Raise("IndexError: list index out of range")
    ELSE LET content == IF reply.content = PyNone THEN NoContentText ELSE reply.content.str
         IN Return([message |-> strip(content),
                    source |-> "openai",
                    confidence |-> Rat(9, 10)])

get_openai_response(client_, message, context, reply) ==
    LET t == openai_try(client_, message, context, reply) IN
    IF t.raised THEN Return(OpenaiErrorResult) ELSE t

\* whether get_response(message, context) gets as far as the remote call
ReachesCreate(key, client_, message, context) ==
    /\ message # PyNone
    /\ Truthy(client_) /\ Truthy(key)
    /\ (context = PyNone \/ Serializable(context))

----------------------------------------------------------------------------
(* get_response *)

\* message.lower().strip()
clean_message(message) ==
    IF message = PyNone
    THEN Raise("AttributeError: 'NoneType' object has no attribute 'lower'")
    ELSE Return(strip(lower(message.str)))

\* lines 60-67: the value returned from inside the OpenAI block, or PyNone when
\* control leaves the block
openai_tier(key, client_, message, context, reply) ==
    IF Truthy(client_) /\ Truthy(key)
    THEN LET r == get_openai_response(client_, message, context, reply) IN
         IF r.raised THEN PyNone
         ELSE IF Truthy(r.value) THEN r.value ELSE PyNone
    ELSE PyNone

\* lines 71-79
after_faq(faq_response) ==
    IF faq_response.raised THEN faq_response
    ELSE IF Truthy(faq_response.value) THEN faq_response
    ELSE Return(DefaultResult)

\* lines 57-79, the body of the outer try
get_response_try(key, client_, db, message, context, reply) ==
    LET clean == clean_message(message) IN
    IF clean.raised THEN clean
    ELSE LET openai_response == openai_tier(key, client_, message, context, reply) IN
         IF openai_response # PyNone THEN Return(openai_response)
         ELSE after_faq(get_faq_response(db, clean.value))

\* get_response without its outer except clause
get_response_reraise(t) == t

\* lines 81-87
get_response_except(t) == IF t.raised THEN Return(TopErrorResult) ELSE t

get_response(key, client_, db, message, context, reply) ==
    get_response_except(get_response_try(key, client_, db, message, context, reply))

----------------------------------------------------------------------------
(* add_faq_entry *)

HasKey(db, key) == \E i \in DOMAIN db : db[i].faq_key = key

\* dict.setdefault for the assignment: a present key keeps its old value
dict_set_keep_old(db, key, value) ==
    IF HasKey(db, key)
    THEN db
    ELSE Append(db, [faq_key |-> key, faq_data |-> value])

\* self.faq_database[key] = value: a present key keeps its place
dict_set(db, key, value) ==
    IF HasKey(db, key)
    THEN [i \in DOMAIN db |->
            IF db[i].faq_key = key THEN [faq_key |-> key, faq_data |-> value] ELSE db[i]]
    ELSE Append(db, [faq_key |-> key, faq_data |-> value])

\* question.lower().strip()
question_key(question) ==
    IF question = PyNone
    THEN Raise("AttributeError: 'NoneType' object has no attribute 'lower'")
    ELSE Return(strip(lower(question.str)))

\* the store after add_faq_entry(question, answer, confidence)
add_faq_entry(db, question, answer, confidence) ==
    LET key == question_key(question) IN
    IF key.raised THEN db
    ELSE dict_set(db, key.value, [answer |-> answer, confidence |-> confidence])

----------------------------------------------------------------------------
(* Inputs *)

MaxNewEntries == 1

Questions ==
    { PyNone,
      PyStr(<<" ">>),
      PyStr(<<"New", " ", "Question">>),
      PyStr(<<"new", " ", " ", "question">>),
      PyStr(<<"new", " ", "new">>),
      PyStr(<<" ", "What", " ", "is", " ", "ACTMS", " ">>),
      PyStr(<<"actms", " ", "is", " ", "what">>) }

\* the (answer, confidence) arguments of add_faq_entry
Payloads ==
    { [answer |-> <<"New", " ", "answer">>, confidence |-> Rat(4, 5)],
      [answer |-> <<"Other", " ", "answer">>, confidence |-> Rat(3, 2)] }

Messages ==
    { PyNone,
      PyStr(<<" ", "What", " ", "is", " ", "ACTMS", " ">>),
      PyStr(<<"New", " ", "Question">>),
      PyStr(<<"hello">>) }

\* the str arguments _get_faq_response is called with
FaqMessages ==
    { <<>>,
      <<"new", " ", "question">>,
      <<"new", " ", " ", "question">>,
      <<"new", " ", "new">>,
      <<"what", " ", "is", " ", "actms">>,
      <<"actms", " ", "is", " ", "what">>,
      <<"tell", " ", "me", " ", "about", " ", "actms", " ", "system">>,
      <<"how", " ", "to">> }

Contexts == { PyNone, [serializable |-> TRUE], [serializable |-> FALSE] }

Replies ==
    { [kind |-> "raise"],
      [kind |-> "no_choices"],
      [kind |-> "content", content |-> PyNone],
      [kind |-> "content", content |-> PyStr(<<" ", "Hello", " ">>)] }

ApiKeys == { PyNone, PyStr(<<"sk-test">>) }

----------------------------------------------------------------------------
(* State machine: the public operations called one after another *)

IdlePc == [reader |-> "idle", writer |-> "idle"]

IdleFrame == [message |-> <<>>, di_used |-> 0, i |-> 0, acc |-> InitialBest]

\* __init__
Construct(key) ==
    /\ openai_api_key = key
    /\ client = IF Truthy(key) THEN [api_key |-> key] ELSE PyNone
    /\ faq_database = SeedDatabase
    /\ call = [op |-> "__init__"]
    /\ result = Return(PyNone)
    /\ pc = IdlePc
    /\ frame = IdleFrame

Init == \E key \in ApiKeys : Construct(key)

\* get_response that files its answer in the FAQ store under the message
GetResponse_learning(message, context, reply) ==
    LET r == get_response(openai_api_key, client, faq_database, message, context, reply) IN
    /\ pc = IdlePc
    /\ (reply # NotCalled) = ReachesCreate(openai_api_key, client, message, context)
    /\ call' = [op |-> "get_response", message |-> message, context |-> context,
                reply |-> reply]
    /\ result' = r
    /\ faq_database' = add_faq_entry(faq_database, message, r.value.message,
                                      r.value.confidence)
    /\ UNCHANGED <<openai_api_key, client, pc, frame>>

GetResponse(message, context, reply) ==
    /\ pc = IdlePc
    /\ (reply # NotCalled) = ReachesCreate(openai_api_key, client, message, context)
    /\ call' = [op |-> "get_response", message |-> message, context |-> context,
                reply |-> reply]
    /\ result' = get_response(openai_api_key, client, faq_database, message, context, reply)
    /\ UNCHANGED <<openai_api_key, client, faq_database, pc, frame>>

GetFaqResponse(message) ==
    /\ pc = IdlePc
    /\ call' = [op |-> "_get_faq_response", message |-> message]
    /\ result' = get_faq_response(faq_database, message)
    /\ UNCHANGED <<openai_api_key, client, faq_database, pc, frame>>

\* the bound on the number of keys added to the seed store
RoomFor(db, question) ==
    \/ question_key(question).raised
    \/ HasKey(db, question_key(question).value)
    \/ Len(db) < Len(SeedDatabase) + MaxNewEntries

AddFaqEntry(question, answer, confidence) ==
    /\ pc = IdlePc
    /\ RoomFor(faq_database, question)
    /\ faq_database' = add_faq_entry(faq_database, question, answer, confidence)
    /\ call' = [op |-> "add_faq_entry", question |-> question, answer |-> answer,
                confidence |-> confidence]
    /\ result' = Return(PyNone)
    /\ UNCHANGED <<openai_api_key, client, pc, frame>>

Next ==
    \/ \E message \in Messages, context \in Contexts, reply \in Replies \cup {NotCalled} :
          GetResponse(message, context, reply)
    \/ \E message \in FaqMessages : GetFaqResponse(message)
    \/ \E question \in Questions, p \in Payloads :
          AddFaqEntry(question, p.answer, p.confidence)

Spec == Init /\ [][Next]_vars

----------------------------------------------------------------------------
(* State machine: one get_response, LLM tier disabled, running statement by *)
(* statement on one thread while another thread calls add_faq_entry once.   *)
(* The interpreter switches threads between calls of the iterator's next(). *)

InitConc == Construct(PyNone)

\* get_response up to the first next() of the loop in _get_faq_response
ScanBegin(message, context) ==
    /\ pc.reader = "idle"
    /\ ~(Truthy(client) /\ Truthy(openai_api_key))
    /\ call' = [op |-> "get_response", message |-> message, context |-> context,
                reply |-> NotCalled]
    /\ LET clean == clean_message(message) IN
       IF clean.raised
       THEN /\ result' = get_response_except(clean)
            /\ pc' = [pc EXCEPT !.reader = "done"]
            /\ frame' = frame
       ELSE /\ frame' = [message |-> clean.value, di_used |-> Len(faq_database),
                         i |-> 0, acc |-> InitialBest]
            /\ pc' = [pc EXCEPT !.reader = "scan"]
            /\ result' = result
    /\ UNCHANGED <<openai_api_key, client, faq_database>>

\* one next() and the loop body, or the end of the loop and the return
ScanNext ==
    /\ pc.reader = "scan"
    /\ LET nx == items_next(faq_database, frame.di_used, frame.i) IN
       IF nx.raised \/ nx.value = StopIteration
       THEN /\ result' = get_response_except(after_faq(faq_finish(
                            IF nx.raised THEN nx ELSE Return(frame.acc))))
            /\ pc' = [pc EXCEPT !.reader = "done"]
            /\ frame' = frame
       ELSE /\ frame' = [frame EXCEPT !.i = @ + 1,
                                      !.acc = loop_body(@, nx.value, frame.message)]
            /\ UNCHANGED <<pc, result>>
    /\ UNCHANGED <<openai_api_key, client, faq_database, call>>

\* add_faq_entry on the other thread
ConcurrentAdd(question, answer, confidence) ==
    /\ pc.writer = "idle"
    /\ faq_database' = add_faq_entry(faq_database, question, answer, confidence)
    /\ pc' = [pc EXCEPT !.writer = "done"]
    /\ UNCHANGED <<openai_api_key, client, call, result, frame>>

NextConc ==
    \/ \E message \in Messages, context \in Contexts : ScanBegin(message, context)
    \/ ScanNext
    \/ \E question \in Questions, p \in Payloads :
          ConcurrentAdd(question, p.answer, p.confidence)

SpecConc == InitConc /\ [][NextConc]_vars

----------------------------------------------------------------------------
(* Vocabulary of the properties *)

IsResolve == call.op = "get_response"

IsMatchFAQ == call.op = "_get_faq_response"

LlmConfigured == Truthy(client) /\ Truthy(openai_api_key)

\* the LLM-call adapter was entered and failed
AdapterFailed ==
    /\ IsResolve
    /\ LlmConfigured
    /\ call.message # PyNone
    /\ openai_try(client, call.message.str, call.context, call.reply).raised

\* the normalized form of a str: lowercased, trimmed
Normalized(t) == strip(lower(t))

Tokens(t) == split(t)

\* |K \cap M| / max(n, 1), n the number of tokens of the key, repeats counted
KeyFraction(key, m) ==
    Rat(Cardinality(set(Tokens(key)) \cap set(Tokens(m))), Max(Len(Tokens(key)), 1))

\* |K \cap M| / max(|K|, 1), K the set of distinct tokens of the key
SetFraction(key, m) ==
    Rat(Cardinality(set(Tokens(key)) \cap set(Tokens(m))),
        Max(Cardinality(set(Tokens(key))), 1))

\* the entries scoring strictly above 0.3
Eligible(db, m) == {i \in DOMAIN db : RatGt(KeyFraction(db[i].faq_key, m), Threshold)}

\* the eligible entry of maximal score that comes first in the store
FirstBest(db, m) ==
    CHOOSE i \in Eligible(db, m) :
        \A j \in Eligible(db, m) :
            /\ RatGe(KeyFraction(db[i].faq_key, m), KeyFraction(db[j].faq_key, m))
            /\ j < i => RatGt(KeyFraction(db[i].faq_key, m), KeyFraction(db[j].faq_key, m))

InUnitInterval(x) == RatGe(x, Rat(0, 1)) /\ RatGe(Rat(1, 1), x)

One == Rat(1, 1)

IndexOfKey(db, key) == CHOOSE i \in DOMAIN db : db[i].faq_key = key

IsSeedKey(key) == HasKey(SeedDatabase, key)

----------------------------------------------------------------------------
(* C1 *)

\* C1: when an LLM client is configured and the LLM-call adapter fails,
\* get_response does not return the adapter's error result: it returns the FAQ
\* match for the normalized message when one clears the threshold.
C1_AdapterFailureFallsBackToFAQ ==
    AdapterFailed =>
        LET faq == get_faq_response(faq_database, Normalized(call.message.str)).value IN
        /\ result.value # OpenaiErrorResult
        /\ faq.source = "faq" => result.value = faq

(* C2 *)

\* C2: when the LLM tier yields no answer (no client configured, or the call
\* failed) and no FAQ entry scores strictly above 0.3 for the normalized
\* message, get_response returns the fixed default result (source default,
\* confidence 0.3).
C2_NoAnswerGivesDefault ==
    ( /\ IsResolve
      /\ call.message # PyNone
      /\ ~LlmConfigured \/ AdapterFailed
      /\ Eligible(faq_database, Normalized(call.message.str)) = {} )
    => /\ ~result.raised
       /\ result.value = DefaultResult

(* C3 *)

\* C3: the source of every result of get_response is one of llm (spelled
\* "openai" by the code), faq, default, error.
C3_SourceIsOneOfFour ==
    IsResolve => /\ ~result.raised
                 /\ result.value.source \in {"openai", "faq", "default", "error"}

(* C4 *)

\* C4 as stated: whatever confidence arguments add_faq_entry was given, the
\* confidence of every result of get_response lies in [0, 1].
C4_ConfidenceInUnitInterval ==
    IsResolve => /\ ~result.raised
                 /\ InUnitInterval(result.value.confidence)

\* C4 amended: when every entry of the FAQ store has a confidence in [0, 1],
\* the confidence of every result of get_response lies in [0, 1].
C4_ConfidenceInUnitIntervalForValidStore ==
    ( /\ IsResolve
      /\ \A i \in DOMAIN faq_database : InUnitInterval(faq_database[i].faq_data.confidence) )
    => /\ ~result.raised
       /\ InUnitInterval(result.value.confidence)

\* a get_response answered from an entry that add_faq_entry wrote, with a
\* confidence strictly inside the interval
C4_Witness ==
    /\ IsResolve
    /\ \A i \in DOMAIN faq_database : InUnitInterval(faq_database[i].faq_data.confidence)
    /\ faq_database # SeedDatabase
    /\ result.value.source = "faq"
    /\ result.value.message = <<"New", " ", "answer">>
    /\ RatGt(result.value.confidence, Rat(0, 1))
    /\ RatGt(One, result.value.confidence)

(* C5 *)

\* C5 as stated: the confidence of a FAQ result is entry.confidence times
\* |K \cap M| / max(|K|, 1) with K the set of distinct tokens of the returned
\* entry's key.
C5_ConfidenceIsSetFraction ==
    (IsMatchFAQ /\ result.value.source = "faq") =>
        LET e == faq_database[FirstBest(faq_database, call.message)] IN
        result.value.confidence =
            RatMul(e.faq_data.confidence, SetFraction(e.faq_key, call.message))

\* C5 amended: the confidence of a FAQ result is entry.confidence times
\* |K \cap M| / max(n, 1), where n is the number of tokens of the returned
\* entry's key with repeated tokens counted; it differs from the raw entry
\* confidence unless that fraction is 1 or the entry confidence is 0.
C5_ConfidenceIsKeyFraction ==
    (IsMatchFAQ /\ result.value.source = "faq") =>
        LET e == faq_database[FirstBest(faq_database, call.message)]
            f == KeyFraction(e.faq_key, call.message)
        IN /\ result.value.confidence = RatMul(e.faq_data.confidence, f)
           /\ (f # One /\ e.faq_data.confidence # Rat(0, 1))
                 => result.value.confidence # e.faq_data.confidence

\* a match on a key with a repeated token, where the two fractions differ
C5_Witness ==
    /\ IsMatchFAQ
    /\ result.value.source = "faq"
    /\ LET e == faq_database[FirstBest(faq_database, call.message)] IN
       /\ Len(Tokens(e.faq_key)) > Cardinality(set(Tokens(e.faq_key)))
       /\ result.value.confidence # e.faq_data.confidence

(* C6 *)

\* C6: _get_faq_response returns an entry of maximal score among the entries
\* scoring strictly above 0.3 and, of several with that score, the one that
\* comes first in the store; it returns no entry when none scores above 0.3.
C6_FirstBestEntryIsReturned ==
    IsMatchFAQ =>
        /\ ~result.raised
        /\ IF Eligible(faq_database, call.message) = {}
           THEN result.value = NoMatchResult
           ELSE LET e == faq_database[FirstBest(faq_database, call.message)] IN
                /\ result.value.source = "faq"
                /\ result.value.message = e.faq_data.answer
                /\ result.value.confidence =
                      RatMul(e.faq_data.confidence, KeyFraction(e.faq_key, call.message))

\* two entries with different answers tie at the maximal score
C6_Witness ==
    /\ IsMatchFAQ
    /\ result.value.source = "faq"
    /\ \E i, j \in Eligible(faq_database, call.message) :
          /\ i = FirstBest(faq_database, call.message)
          /\ i < j
          /\ KeyFraction(faq_database[i].faq_key, call.message)
                = KeyFraction(faq_database[j].faq_key, call.message)
          /\ faq_database[i].faq_data.answer # faq_database[j].faq_data.answer
          /\ result.value.message = faq_database[i].faq_data.answer

(* C7 *)

\* the state is the one add_faq_entry(q, a, c) leaves, q having a token
AfterAddOfQuestion ==
    /\ call.op = "add_faq_entry"
    /\ call.question # PyNone
    /\ Tokens(call.question.str) # <<>>

\* what _get_faq_response returns there for the normalized q
MatchOfAddedQuestion ==
    get_faq_response(faq_database, Normalized(call.question.str))

AddedAnswer ==
    Return([message |-> call.answer, source |-> "faq", confidence |-> call.confidence])

\* C7 as stated: after add_faq_entry(q, a, c) with q containing a token,
\* _get_faq_response on the normalized q returns a with confidence c.
C7_AddThenMatchReturnsEntry ==
    AfterAddOfQuestion => MatchOfAddedQuestion = AddedAnswer

\* no token of q occurs twice, and no entry before q's in the store has all
\* the tokens of its key among those of q
NoRivalForAddedQuestion ==
    LET key == Normalized(call.question.str)
        at == IndexOfKey(faq_database, key)
    IN /\ Len(Tokens(key)) = Cardinality(set(Tokens(key)))
       /\ \A j \in 1..(at - 1) : KeyFraction(faq_database[j].faq_key, key) # One

\* C7 amended: after add_faq_entry(q, a, c) with q containing a token,
\* _get_faq_response on the normalized q returns a with confidence c provided
\* no token occurs twice in q and no entry placed before q's entry in the store
\* scores 1 against q.
C7_AddThenMatchReturnsEntryWithoutRival ==
    (AfterAddOfQuestion /\ NoRivalForAddedQuestion) => MatchOfAddedQuestion = AddedAnswer

\* the add overwrote a seed entry, or added a key that a later entry ties with
C7_Witness ==
    /\ AfterAddOfQuestion
    /\ NoRivalForAddedQuestion
    /\ MatchOfAddedQuestion = AddedAnswer
    /\ call.confidence = Rat(4, 5)
    /\ \/ IsSeedKey(Normalized(call.question.str))
       \/ \E j \in DOMAIN faq_database :
             /\ j > IndexOfKey(faq_database, Normalized(call.question.str))
             /\ KeyFraction(faq_database[j].faq_key, Normalized(call.question.str)) = One

(* C8 *)

\* C8: get_response never raises: it returns one result (message, source,
\* confidence), and when the message cannot be normalized, which no inner step
\* handles, that result has source error and confidence 0.0.
C8_ResolveNeverRaises ==
    IsResolve =>
        /\ ~result.raised
        /\ DOMAIN result.value = {"message", "source", "confidence"}
        /\ call.message = PyNone =>
              /\ result.value.source = "error"
              /\ result.value.confidence = Rat(0, 1)
              /\ result.value = TopErrorResult

\* a get_response whose message is None
C8_Witness ==
    /\ IsResolve
    /\ call.message = PyNone
    /\ result = Return(TopErrorResult)

(* C9 *)

\* C9: get_response and _get_faq_response leave the FAQ store as it was (keys,
\* answers, confidences and order); only add_faq_entry changes it.
C9_ResolveLeavesStoreUnchanged ==
    [][ /\ call'.op \in {"get_response", "_get_faq_response"} => faq_database' = faq_database
        /\ faq_database' # faq_database => call'.op = "add_faq_entry" ]_vars

\* a get_response answered by the FAQ tier from a store add_faq_entry changed
C9_Witness ==
    /\ IsResolve
    /\ faq_database # SeedDatabase
    /\ result.value.source = "faq"
    /\ result.value.message = <<"Other", " ", "answer">>

(* C10 *)

\* C10: a get_response (LLM tier disabled) whose scan interleaves with one
\* concurrent add_faq_entry returns what it would return against the store
\* before the add or against the store after it.
C10_ScanIsLinearizable ==
    pc.reader = "done" =>
        \/ result = get_response(openai_api_key, client, SeedDatabase,
                                 call.message, call.context, call.reply)
        \/ result = get_response(openai_api_key, client, faq_database,
                                 call.message, call.context, call.reply)

====
